---- MODULE Spec2Model ----
(***************************************************************************)
(* A model of audiosetdl's segment acquisition pipeline:                   *)
(*   - ffmpeg()              the bounded retry loop around the transcoder  *)
(*   - validate_audio/video  the validators it calls back                  *)
(*   - download_yt_video     the per-segment job                           *)
(*   - segment_mp_worker     the pool worker wrapping the job              *)
(*   - download_subset_videos, download_random_subset_files: dispatchers   *)
(*                                                                         *)
(* Times are whole milliseconds.  Spec follows one job through             *)
(* segment_mp_worker; SpecDispatch follows a dispatcher and its pool.      *)
(***************************************************************************)
EXTENDS Integers, Sequences, FiniteSets, TLC

(***************************************************************************)
(* Bounds of the model                                                     *)
(***************************************************************************)
\* the retry budgets num_retries explored are 0..MaxRetries
MaxRetries == 3

(***************************************************************************)
(* Program constants                                                       *)
(***************************************************************************)
\* validation.py: TOL = 0.7 (seconds), here in ms
TOL == 700
\* download_yt_video keyword defaults
audio_sample_rate == 48000
audio_bit_depth == 16
video_frame_rate == 30
\* audio_info['channels']
audio_channels == 2

None == [exc |-> "None"]

(***************************************************************************)
(* Command line tokens.  A literal string s is the token <<s>>; str(x) of  *)
(* a number x is the token <<"str", x>>, which float() parses back.        *)
(***************************************************************************)
Tok(s) == <<s>>
Str(x) == <<"str", x>>
Float(tok) == tok[2]

\* list.index(flag): the first position holding flag, 0 for ValueError
Index(args, flag) ==
    IF \E i \in 1..Len(args) : args[i] = Tok(flag)
    THEN CHOOSE i \in 1..Len(args) :
            /\ args[i] = Tok(flag)
            /\ \A j \in 1..(i - 1) : args[j] # Tok(flag)
    ELSE 0

(***************************************************************************)
(* utils.py: stderr texts and their classification.  A stderr text is a    *)
(* sequence of pieces; rstrip() drops trailing whitespace pieces.          *)
(***************************************************************************)
Whitespace == {"\n", " "}

RECURSIVE rstrip(_)
rstrip(s) ==
    IF Len(s) > 0 /\ s[Len(s)] \in Whitespace
    THEN rstrip(SubSeq(s, 1, Len(s) - 1))
    ELSE s

\* a variant that looks for another ending
EndsWithOverwritePrompt(s) ==
    Len(s) > 0 /\ s[Len(s)] = "Overwrite? [y/N]"

\* str.endswith('already exists. Exiting.')
EndsWithAlreadyExists(s) ==
    Len(s) > 0 /\ s[Len(s)] = "already exists. Exiting."

\* HTTP_ERR_PATTERN.match: 'Server returned (4|5)(X|[0-9])(X|[0-9])' at the start
Digits == {"0", "1", "2", "3", "4", "5", "6", "7", "8", "9"}
HTTP_ERR_PATTERN(s) ==
    /\ Len(s) >= 4
    /\ s[1] = "Server returned "
    /\ s[2] \in {"4", "5"}
    /\ s[3] \in {"X"} \cup Digits
    /\ s[4] \in {"X"} \cup Digits

\* what the transcoder writes to stderr when it fails
StderrExists == <<"File 'out' ", "already exists. Exiting.", "\n">>
Stderr503 == <<"Server returned ", "5", "0", "3", " Service Unavailable", "\n">>
Stderr4XX == <<"Server returned ", "4", "X", "X", " Client Error reply">>
StderrOther == <<"Conversion failed!", "\n">>
StderrEmpty == <<>>

(***************************************************************************)
(* errors.py: the exceptions, as records                                   *)
(***************************************************************************)
Raised(exc, stderr, target, actual) ==
    [exc |-> exc, cmd_stderr |-> stderr,
     target_duration |-> target, actual_duration |-> actual]

NoError == Raised("none", <<>>, 0, 0)
SubprocessError(stderr) == Raised("SubprocessError", stderr, 0, 0)
FfmpegValidationError == Raised("FfmpegValidationError", <<>>, 0, 0)
FfmpegIncorrectDurationError(target, actual) ==
    Raised("FfmpegIncorrectDurationError", <<>>, target, actual)
\* any exception that is none of the three above (KeyError, StopIteration, ...)
OtherException(name) == Raised(name, <<>>, 0, 0)

(***************************************************************************)
(* validation.py.  A probe is what the analysers report of the file at the *)
(* output path: whether it exists, how the analyser ended, and the stream  *)
(* properties it measured.                                                 *)
(***************************************************************************)
\* a variant that takes a difference of exactly TOL for a mismatch
DurationMismatchAtTolerance(target_duration, actual_duration) ==
    /\ target_duration # actual_duration
    /\ \/ actual_duration <= target_duration - TOL
       \/ actual_duration >= target_duration + TOL

\* the duration test both validators share (validation.py 71-75, 135-139)
DurationMismatch(target_duration, actual_duration) ==
    /\ target_duration # actual_duration
    /\ \/ actual_duration < target_duration - TOL
       \/ actual_duration > target_duration + TOL

\* the property loop: every key of info but 'duration' equals the probed value
PropertyMismatch(info, probed) ==
    \E k \in (DOMAIN info) \ {"duration"} : info[k] # probed[k]

\* a variant that lets a file shorter than its target pass the duration
\* test when the end of the segment was clamped
validate_audio_lenient(probe, audio_info, end_past_video_end) ==
    IF ~probe.exists THEN FfmpegValidationError
    ELSE IF probe.tool # "ok" THEN OtherException("SoxiError")
    ELSE LET target_duration == audio_info.duration
             actual_duration ==
                 (probe.info.num_samples * 1000) \div audio_info.sample_rate
         IN  IF /\ DurationMismatch(target_duration, actual_duration)
                /\ ~(end_past_video_end /\ actual_duration < target_duration)
             THEN FfmpegIncorrectDurationError(target_duration, actual_duration)
             ELSE IF PropertyMismatch(audio_info, probe.info)
             THEN FfmpegValidationError
             ELSE NoError

validate_audio(probe, audio_info, end_past_video_end) ==
    IF ~probe.exists THEN FfmpegValidationError
    ELSE IF probe.tool # "ok" THEN OtherException("SoxiError")
    ELSE LET target_duration == audio_info.duration
             actual_duration ==
                 (probe.info.num_samples * 1000) \div audio_info.sample_rate
         IN  IF DurationMismatch(target_duration, actual_duration)
             THEN FfmpegIncorrectDurationError(target_duration, actual_duration)
             ELSE IF PropertyMismatch(audio_info, probe.info)
             THEN FfmpegValidationError
             ELSE NoError

validate_video(probe, video_info, end_past_video_end) ==
    IF ~probe.exists \/ probe.tool = "fail" THEN SubprocessError(StderrEmpty)
    ELSE IF probe.tool = "empty" THEN FfmpegValidationError
    ELSE IF probe.tool = "novideo" THEN OtherException("StopIteration")
    ELSE LET target_duration == video_info.duration
             fr == probe.info.r_frame_rate
             actual_duration == (probe.info.nb_frames * 1000 * fr[2]) \div fr[1]
         IN  IF DurationMismatch(target_duration, actual_duration)
             THEN FfmpegIncorrectDurationError(target_duration, actual_duration)
             ELSE IF PropertyMismatch(video_info, probe.info)
             THEN FfmpegValidationError
             ELSE NoError

validation_callback(name, probe, args) ==
    IF name = "validate_audio"
    THEN validate_audio(probe, args.info, args.end_past_video_end)
    ELSE validate_video(probe, args.info, args.end_past_video_end)

(***************************************************************************)
(* State                                                                   *)
(***************************************************************************)
VARIABLES
    \* segment_mp_worker / download_yt_video: arguments
    segment,            \* [ytid, ts_start, ts_end] as submitted
    video_mode,
    video_codec,
    num_retries,
    \* download_yt_video: locals
    video_duration,     \* video.length, 0 before resolution
    duration,
    ts_end,
    end_past_video_end,
    \* ffmpeg(): arguments and locals of the call in progress
    call,               \* "none", "audio", "video", "inter", "merge"
    inputs,
    output_path,
    input_args,
    output_args,
    callback,           \* "none", "validate_audio", "validate_video"
    validation_args,
    attempt,            \* iterations of the retry loop begun so far
    last_err,
    \* the filesystem: state of the file at each path of the job
    disk,
    \* control
    pc,                 \* "resolve", "loop", "after", "done"
    result,             \* "pending", "downloaded", "error"
    worker_error,       \* the exception segment_mp_worker logged, "none"
    raised_by,          \* the function that raised it
    \* history
    execs,              \* run_command(ffmpeg ...) calls made by this call
    last_cmd,           \* the command of the last execution
    last_outcome,       \* how the last executed attempt ended
    corrections,        \* sum of target - actual over this call's duration mismatches
    reported,           \* calls that logged 'Maximum number of retries'
    resolutions,        \* pafy.new calls made by the job
    \* the dispatcher: arguments and locals
    entry,              \* the dispatcher running
    manifest,           \* the rows csv.reader yields
    num_workers,
    max_videos,         \* 0 stands for None
    row_idx,            \* rows of the loop consumed so far
    subset_data,        \* download_random_subset_files: the shuffled rows
    dpc,                \* "read", "rows", "join", "finished"; "drain",
                        \* "exited", "abandoned" after KeyboardInterrupt;
                        \* "drain_fatal", "fatal" after sys.exit(message);
                        \* "drain_crash", "crashed" after an uncaught exception
    \* the pool
    queue,              \* tasks submitted and not yet taken
    running,            \* tasks a worker is running, with their stage
    \* the filesystem under data_dir: the paths that hold a file
    files,
    \* history, per manifest line
    existed,            \* lines whose two outputs existed when reached
    submitted,          \* lines submitted to the pool, in order
    resolved,           \* lines whose job called the source resolution
    invoked,            \* lines whose job ran a subprocess
    ended,              \* lines whose job ran to its end
    failed,             \* lines whose job ended in an exception the worker logged
    torn,               \* paths holding a file of an attempt cut short by the exit
    exit_line,          \* the line the message of sys.exit names, 0 for none
    \* a validator called on its own
    v_call,             \* the validator, what the analysers report, the arguments
    v_result            \* what the call raised, NoError if it returned

argVars == <<segment, video_mode, video_codec, num_retries>>
localVars == <<video_duration, duration, ts_end, end_past_video_end>>
frameVars == <<call, inputs, output_path, input_args, output_args, callback,
               validation_args, attempt, last_err>>
histVars == <<execs, last_cmd, last_outcome, corrections, reported>>
jobVars == <<argVars, localVars, frameVars, disk, pc, result, worker_error,
             raised_by, histVars, resolutions>>

poolVars == <<entry, manifest, num_workers, max_videos, row_idx, subset_data,
              dpc, queue, running, files, existed, submitted, resolved,
              invoked, ended, failed, torn, exit_line>>

valVars == <<v_call, v_result>>

vars == <<jobVars, poolVars, valVars>>

(***************************************************************************)
(* Inputs of the model                                                     *)
(***************************************************************************)
\* manifest windows (start, end), end > start
Windows == {<<10000, 20000>>}
\* video.length values the resolution may report: past the window's end,
\* inside the window, and before its start
VideoLengths == {30000, 15000, 5000}
VideoModes == {"bestvideo", "bestvideoaudio", "bestvideoaudionoaudio",
               "bestvideowithaudio", "worstvideo"}
VideoCodecs == {"h264", "vp9"}
Paths == {"audio", "video", "merge"}
FileStates == {"none", "old", "partial", "unchecked", "invalid", "valid"}

\* what sox reports of a produced audio file
AudioProbeInfos(info) ==
    {[sample_rate |-> info.sample_rate, channels |-> info.channels,
      bitrate |-> info.bitrate, encoding |-> e,
      num_samples |-> (d * info.sample_rate) \div 1000] :
        e \in {info.encoding, "MP3"},
        d \in {dd \in {info.duration, info.duration - 1100,
                       info.duration + 700, 10000} : dd >= 0}}

\* what ffprobe reports of a produced video file
VideoProbeInfos(info) ==
    {[r_frame_rate |-> info.r_frame_rate,
      avg_frame_rate |-> info.avg_frame_rate,
      codec_name |-> c,
      nb_frames |-> (d * info.r_frame_rate[1]) \div (1000 * info.r_frame_rate[2])] :
        c \in {info.codec_name, "vp9"},
        d \in {dd \in {info.duration, info.duration - 1100,
                       info.duration + 700, 10000} : dd >= 0}}

Probes(name, args) ==
    IF name = "none" THEN {[exists |-> TRUE, tool |-> "ok", info |-> <<>>]}
    ELSE IF name = "validate_audio"
    THEN {[exists |-> TRUE, tool |-> "ok", info |-> i] : i \in AudioProbeInfos(args.info)}
         \cup {[exists |-> TRUE, tool |-> "fail", info |-> <<>>]}
    ELSE {[exists |-> TRUE, tool |-> "ok", info |-> i] : i \in VideoProbeInfos(args.info)}
         \cup {[exists |-> TRUE, tool |-> t, info |-> <<>>] : t \in {"fail", "empty", "novideo"}}

(***************************************************************************)
(* download_yt_video                                                       *)
(***************************************************************************)
\* a variant that keeps the requested window whatever the source's length
ClampIgnored(start, end, length) ==
    [duration |-> end - start, ts_end |-> end, end_past_video_end |-> FALSE]

\* lines 382, 395-402: the effective window
Clamp(start, end, length) ==
    IF end > length
    THEN [duration |-> length - start, ts_end |-> start + (length - start),
          end_past_video_end |-> TRUE]
    ELSE [duration |-> end - start, ts_end |-> end,
          end_past_video_end |-> FALSE]

audio_info(d) ==
    [sample_rate |-> audio_sample_rate, channels |-> audio_channels,
     bitrate |-> audio_bit_depth, encoding |-> "FLAC", duration |-> d]

video_info(d) ==
    [r_frame_rate |-> <<video_frame_rate, 1>>,
     avg_frame_rate |-> <<video_frame_rate, 1>>,
     codec_name |-> video_codec, duration |-> d]

audio_input_args(start) == <<Tok("-n"), Tok("-ss"), Str(start)>>
audio_output_args(d) ==
    <<Tok("-t"), Str(d), Tok("-ar"), Str(audio_sample_rate), Tok("-vn"),
      Tok("-ac"), Str(audio_channels), Tok("-sample_fmt"), Tok("s16"),
      Tok("-f"), Tok("flac"), Tok("-acodec"), Tok("flac")>>

video_input_args(start) == <<Tok("-n"), Tok("-ss"), Str(start)>>
video_output_args(d) ==
    <<Tok("-t"), Str(d), Tok("-f"), Tok("mp4"), Tok("-r"),
      Str(video_frame_rate), Tok("-vcodec"), Tok(video_codec)>>
    \o (IF video_mode \in {"bestvideo", "bestvideoaudionoaudio"}
        THEN <<Tok("-an")>> ELSE <<>>)

lossless_output_args(d) ==
    <<Tok("-t"), Str(d), Tok("-f"), Tok("mp4"), Tok("-crf"), Tok("0"),
      Tok("-preset"), Tok("medium"), Tok("-r"), Str(video_frame_rate),
      Tok("-an"), Tok("-vcodec"), Tok(video_codec)>>

merge_input_args == <<Tok("-n")>>
merge_output_args ==
    <<Tok("-f"), Tok("mp4"), Tok("-r"), Str(video_frame_rate),
      Tok("-vcodec"), Tok(video_codec), Tok("-acodec"), Tok("aac"),
      Tok("-ar"), Str(audio_sample_rate), Tok("-ac"), Str(audio_channels),
      Tok("-strict"), Tok("experimental")>>

NoAttempt == Raised("noattempt", <<>>, 0, 0)
NoCommand == [input_args |-> <<>>, inputs |-> <<>>, output_args |-> <<>>,
              output_path |-> "none"]
NoValidation == [info |-> <<>>, end_past_video_end |-> FALSE]

\* entering ffmpeg(): lines 233-249
Enter(c, ins, out, in_args, out_args, cb, v_args) ==
    /\ call' = c
    /\ inputs' = ins
    /\ output_path' = out
    /\ input_args' = in_args
    /\ output_args' = out_args
    /\ callback' = cb
    /\ validation_args' = v_args
    /\ attempt' = 0
    /\ last_err' = None
    /\ execs' = 0
    /\ last_cmd' = NoCommand
    /\ last_outcome' = NoAttempt
    /\ corrections' = 0
    /\ pc' = "loop"

\* an exception leaves download_yt_video: segment_mp_worker logs it (547-555)
WorkerCatches(e, where) ==
    /\ pc' = "done"
    /\ result' = "error"
    /\ worker_error' = e
    /\ raised_by' = where

\* the job returns normally: line 507-509
Downloaded ==
    /\ pc' = "done"
    /\ result' = "downloaded"
    /\ UNCHANGED <<worker_error, raised_by>>

(***************************************************************************)
(* Source resolution: lines 382-443, up to the call of ffmpeg() for audio  *)
(***************************************************************************)
\* what pafy.new() answers: the source is unavailable, or its length
Resolutions ==
    {[ok |-> FALSE, length |-> 0]}
    \cup {[ok |-> TRUE, length |-> l] : l \in VideoLengths}

ValidModes == {"bestvideo", "bestvideowithaudio", "bestvideoaudio",
               "bestvideoaudionoaudio"}

\* pafy.new raises: the source cannot be resolved
ResolveFails ==
    /\ pc = "resolve"
    /\ resolutions' = resolutions + 1
    /\ WorkerCatches("SourceUnavailable", "pafy")
    /\ UNCHANGED <<valVars, poolVars, argVars, localVars, frameVars, disk, histVars>>

\* line 412: raise ValueError('Invalid video mode')
ResolveInvalidMode ==
    /\ pc = "resolve"
    /\ video_mode \notin ValidModes
    /\ \E res \in Resolutions :
        /\ res.ok
        /\ LET w == Clamp(segment.ts_start, segment.ts_end, res.length)
           IN  /\ video_duration' = res.length
               /\ duration' = w.duration
               /\ ts_end' = w.ts_end
               /\ end_past_video_end' = w.end_past_video_end
    /\ resolutions' = resolutions + 1
    /\ WorkerCatches("ValueError", "download_yt_video")
    /\ UNCHANGED <<valVars, poolVars, argVars, frameVars, disk, histVars>>

\* the source resolves; the audio transcode is set up and ffmpeg() entered
Resolve ==
    /\ pc = "resolve"
    /\ video_mode \in ValidModes
    /\ \E res \in Resolutions :
        /\ res.ok
        /\ LET w == Clamp(segment.ts_start, segment.ts_end, res.length)
           IN  /\ video_duration' = res.length
               /\ duration' = w.duration
               /\ ts_end' = w.ts_end
               /\ end_past_video_end' = w.end_past_video_end
               /\ Enter("audio", <<Tok("-i"), Tok("best_audio_url")>>, "audio",
                        audio_input_args(segment.ts_start),
                        audio_output_args(w.duration),
                        "validate_audio",
                        [info |-> audio_info(w.duration),
                         end_past_video_end |-> w.end_past_video_end])
    /\ resolutions' = resolutions + 1
    /\ UNCHANGED <<valVars, poolVars, argVars, disk, result, worker_error, raised_by, reported>>

(***************************************************************************)
(* ffmpeg(): one iteration of the retry loop, lines 250-297                *)
(***************************************************************************)
\* for attempt in range(num_retries); the variant runs one iteration more
LoopContinuesOffByOne == attempt <= num_retries
LoopContinues == attempt < num_retries

Exists(d, path) == d[path] # "none"
Remove(d, path) == [d EXCEPT ![path] = "none"]

\* line 252: the command executed
Command ==
    [input_args |-> input_args, inputs |-> inputs,
     output_args |-> output_args, output_path |-> output_path]

\* run_command(args): how the transcoder may end.  With '-n' it never
\* writes over a file: it can only fail when the output path is taken.  A
\* failing run may leave a partial file behind.
\* The inputs of the merge are the job's own two files; the other calls
\* read remote streams, which may answer with an HTTP error.
LocalInputs == call = "merge"
InputErrors ==
    IF LocalInputs THEN {StderrOther}
    ELSE {Stderr503, Stderr4XX, StderrOther}
InputsReadable ==
    LocalInputs => Exists(disk, "video") /\ Exists(disk, "audio")

RunResults ==
    IF Exists(disk, output_path)
    THEN {[rc |-> 1, stderr |-> e, partial |-> FALSE] :
             e \in {StderrExists} \cup InputErrors}
    ELSE {[rc |-> 0, stderr |-> StderrEmpty, partial |-> FALSE] :
             x \in {y \in {1} : InputsReadable}}
         \cup {[rc |-> 1, stderr |-> e, partial |-> p] :
                 e \in InputErrors, p \in BOOLEAN}

\* the filesystem after the transcoder ran
DiskAfterRun(run) ==
    IF run.rc = 0 THEN [disk EXCEPT ![output_path] = "unchecked"]
    ELSE IF run.partial THEN [disk EXCEPT ![output_path] = "partial"]
    ELSE disk

\* a variant that validates the output path before it looks at the return
\* code of the transcoder
TryValidatesFirst(run, probe) ==
    IF callback # "none" /\ Exists(disk, output_path)
    THEN validation_callback(callback, probe, validation_args)
    ELSE IF run.rc # 0 THEN SubprocessError(run.stderr)
    ELSE IF callback = "none" THEN NoError
    ELSE validation_callback(callback, probe, validation_args)

\* lines 252-258: the body of the try statement
Try(run, probe) ==
    IF run.rc # 0 THEN SubprocessError(run.stderr)
    ELSE IF callback = "none" THEN NoError
    ELSE validation_callback(callback, probe, validation_args)

\* a variant of break that stays in the loop
BreakMissing == pc' = pc
\* break (lines 259, 265) and continue (lines 268, 289, 297)
Break == pc' = "after"
Continue == pc' = pc

\* an iteration begins and runs the command
Executed(e) ==
    /\ attempt' = attempt + 1
    /\ execs' = execs + 1
    /\ last_cmd' = Command
    /\ last_outcome' = e
    /\ corrections' = IF e.exc = "FfmpegIncorrectDurationError"
                      THEN corrections + (e.target_duration - e.actual_duration)
                      ELSE corrections

\* lines 276-277 and 293-294: the output is removed unless this attempt is
\* the last of the budget
RemoveUnlessLast(d) ==
    IF attempt < num_retries - 1 /\ Exists(d, output_path)
    THEN Remove(d, output_path)
    ELSE [d EXCEPT ![output_path] =
              IF d[output_path] = "unchecked" THEN "invalid" ELSE @]

\* lines 252-259: the command and the validation pass; break
AttemptPasses ==
    /\ pc = "loop" /\ LoopContinues
    /\ \E run \in RunResults, probe \in Probes(callback, validation_args) :
        /\ Try(run, probe) = NoError
        /\ Executed(NoError)
        /\ disk' = [disk EXCEPT ![output_path] =
                        IF callback = "none" THEN "unchecked" ELSE "valid"]
    /\ Break
    /\ UNCHANGED <<valVars, poolVars, argVars, localVars, call, inputs, output_path, input_args,
                   output_args, callback, validation_args, last_err, result,
                   worker_error, raised_by, reported, resolutions>>

\* lines 260-265: SubprocessError, the output already exists; break
ExceptAlreadyExists ==
    /\ pc = "loop" /\ LoopContinues
    /\ \E run \in RunResults, probe \in Probes(callback, validation_args) :
        LET e == Try(run, probe) IN
        /\ e.exc = "SubprocessError"
        /\ EndsWithAlreadyExists(rstrip(e.cmd_stderr))
        /\ Executed(e)
        /\ last_err' = e
        /\ disk' = DiskAfterRun(run)
    /\ Break
    /\ UNCHANGED <<valVars, poolVars, argVars, localVars, call, inputs, output_path, input_args,
                   output_args, callback, validation_args, result,
                   worker_error, raised_by, reported, resolutions>>

\* lines 260-268: SubprocessError matching HTTP_ERR_PATTERN; continue
ExceptHttpError ==
    /\ pc = "loop" /\ LoopContinues
    /\ \E run \in RunResults, probe \in Probes(callback, validation_args) :
        LET e == Try(run, probe) IN
        /\ e.exc = "SubprocessError"
        /\ ~EndsWithAlreadyExists(rstrip(e.cmd_stderr))
        /\ HTTP_ERR_PATTERN(rstrip(e.cmd_stderr))
        /\ Executed(e)
        /\ last_err' = e
        /\ disk' = DiskAfterRun(run)
    /\ Continue
    /\ UNCHANGED <<valVars, poolVars, argVars, localVars, call, inputs, output_path, input_args,
                   output_args, callback, validation_args, result,
                   worker_error, raised_by, reported, resolutions>>

\* lines 260-272: any other SubprocessError (of the transcoder, or of the
\* prober inside the validation); the output is removed
ExceptSubprocessError ==
    /\ pc = "loop" /\ LoopContinues
    /\ \E run \in RunResults, probe \in Probes(callback, validation_args) :
        LET e == Try(run, probe) IN
        /\ e.exc = "SubprocessError"
        /\ ~EndsWithAlreadyExists(rstrip(e.cmd_stderr))
        /\ ~HTTP_ERR_PATTERN(rstrip(e.cmd_stderr))
        /\ Executed(e)
        /\ last_err' = e
        /\ disk' = IF Exists(DiskAfterRun(run), output_path)
                   THEN Remove(DiskAfterRun(run), output_path)
                   ELSE DiskAfterRun(run)
    /\ Continue
    /\ UNCHANGED <<valVars, poolVars, argVars, localVars, call, inputs, output_path, input_args,
                   output_args, callback, validation_args, result,
                   worker_error, raised_by, reported, resolutions>>

\* a variant that sets the duration argument to the target plus the last
\* difference, whatever the earlier corrections were
CorrectedFromTarget(args, e) ==
    LET duration_diff == e.target_duration - e.actual_duration
        duration_idx == Index(args, "-t") + 1
    IN  [args EXCEPT ![duration_idx] = Str(e.target_duration + duration_diff)]

\* lines 280-286: the duration argument corrected by target - actual
Corrected(args, e) ==
    LET duration_diff == e.target_duration - e.actual_duration
        duration_idx == Index(args, "-t") + 1
    IN  [args EXCEPT ![duration_idx] = Str(Float(args[duration_idx]) + duration_diff)]

\* lines 274-289: FfmpegIncorrectDurationError; the argument list that
\* carries '-t' is corrected; continue
ExceptIncorrectDuration ==
    /\ pc = "loop" /\ LoopContinues
    /\ \E run \in RunResults, probe \in Probes(callback, validation_args) :
        LET e == Try(run, probe) IN
        /\ e.exc = "FfmpegIncorrectDurationError"
        /\ Executed(e)
        /\ last_err' = e
        /\ disk' = RemoveUnlessLast(DiskAfterRun(run))
        /\ IF Index(input_args, "-t") # 0
           THEN /\ input_args' = Corrected(input_args, e)
                /\ Continue
                /\ UNCHANGED <<output_args, result, worker_error, raised_by>>
           ELSE IF Index(output_args, "-t") # 0
           THEN /\ output_args' = Corrected(output_args, e)
                /\ Continue
                /\ UNCHANGED <<input_args, result, worker_error, raised_by>>
           ELSE \* output_args.index('-t') raises ValueError out of ffmpeg()
                /\ WorkerCatches("ValueError", "ffmpeg")
                /\ UNCHANGED <<input_args, output_args>>
    /\ UNCHANGED <<valVars, poolVars, argVars, localVars, call, inputs, output_path, callback,
                   validation_args, reported, resolutions>>

\* a variant that retries a file that did not validate with '-y' in place
\* of '-n'
ExceptValidationErrorOverwrites ==
    /\ pc = "loop" /\ LoopContinues
    /\ \E run \in RunResults, probe \in Probes(callback, validation_args) :
        LET e == Try(run, probe) IN
        /\ e.exc = "FfmpegValidationError"
        /\ Executed(e)
        /\ last_err' = e
        /\ disk' = RemoveUnlessLast(DiskAfterRun(run))
    /\ input_args' = [input_args EXCEPT ![1] = Tok("-y")]
    /\ Continue
    /\ UNCHANGED <<valVars, poolVars, argVars, localVars, call, inputs, output_path,
                   output_args, callback, validation_args, result,
                   worker_error, raised_by, reported, resolutions>>

\* lines 291-297: any other FfmpegValidationError; continue
ExceptValidationError ==
    /\ pc = "loop" /\ LoopContinues
    /\ \E run \in RunResults, probe \in Probes(callback, validation_args) :
        LET e == Try(run, probe) IN
        /\ e.exc = "FfmpegValidationError"
        /\ Executed(e)
        /\ last_err' = e
        /\ disk' = RemoveUnlessLast(DiskAfterRun(run))
    /\ Continue
    /\ UNCHANGED <<valVars, poolVars, argVars, localVars, call, inputs, output_path, input_args,
                   output_args, callback, validation_args, result,
                   worker_error, raised_by, reported, resolutions>>

\* the validation raises an exception no except clause of ffmpeg() names
Uncaught ==
    /\ pc = "loop" /\ LoopContinues
    /\ \E run \in RunResults, probe \in Probes(callback, validation_args) :
        LET e == Try(run, probe) IN
        /\ e.exc \notin {"none", "SubprocessError", "FfmpegValidationError",
                         "FfmpegIncorrectDurationError"}
        /\ Executed(e)
        /\ disk' = [DiskAfterRun(run) EXCEPT ![output_path] = "invalid"]
        /\ WorkerCatches(e.exc, "ffmpeg")
    /\ UNCHANGED <<valVars, poolVars, argVars, localVars, call, inputs, output_path, input_args,
                   output_args, callback, validation_args, last_err,
                   reported, resolutions>>

\* a variant that starts the loop over when the budget is used up
ExhaustedStartsOver ==
    /\ pc = "loop" /\ ~LoopContinues
    /\ attempt' = 0
    /\ execs' = 0
    /\ UNCHANGED <<valVars, poolVars, argVars, localVars, call, inputs, output_path, input_args,
                   output_args, callback, validation_args, last_err, disk,
                   pc, result, worker_error, raised_by, reported,
                   last_cmd, last_outcome, corrections, resolutions>>

\* lines 298-300: the loop ends without break; the final failure is logged
Exhausted ==
    /\ pc = "loop" /\ ~LoopContinues
    /\ reported' = reported \cup {call}
    /\ pc' = "after"
    /\ UNCHANGED <<valVars, poolVars, argVars, localVars, frameVars, disk, result, worker_error, raised_by,
                   execs, last_cmd, last_outcome, corrections, resolutions>>

(***************************************************************************)
(* download_yt_video after each call of ffmpeg(): lines 445-509            *)
(***************************************************************************)
\* lines 445-461: the video transcode
StartVideo ==
    /\ pc = "after" /\ call = "audio"
    /\ video_mode # "bestvideowithaudio"
    /\ Enter("video", <<Tok("-i"), Tok("best_video_url")>>, "video",
             video_input_args(segment.ts_start), video_output_args(duration),
             "validate_video",
             [info |-> video_info(duration),
              end_past_video_end |-> end_past_video_end])
    /\ UNCHANGED <<valVars, poolVars, argVars, localVars, disk, result, worker_error, raised_by, reported,
                   resolutions>>

\* lines 464-466: raise NotImplementedError
MergeUnsupported ==
    /\ pc = "after" /\ call = "audio"
    /\ video_mode = "bestvideowithaudio"
    /\ video_codec # "h264"
    /\ WorkerCatches("NotImplementedError", "download_yt_video")
    /\ UNCHANGED <<valVars, poolVars, argVars, localVars, frameVars, disk, histVars, resolutions>>

\* lines 467-478: the lossless intermediate video, written to the final
\* video path without validation
StartLossless ==
    /\ pc = "after" /\ call = "audio"
    /\ video_mode = "bestvideowithaudio"
    /\ video_codec = "h264"
    /\ Enter("inter", <<Tok("-i"), Tok("best_video_url")>>, "video",
             video_input_args(segment.ts_start), lossless_output_args(duration),
             "none", NoValidation)
    /\ UNCHANGED <<valVars, poolVars, argVars, localVars, disk, result, worker_error, raised_by, reported,
                   resolutions>>

\* lines 480-497: the merge of the intermediate video with the audio
StartMerge ==
    /\ pc = "after" /\ call = "inter"
    /\ Enter("merge",
             <<Tok("-i"), Tok("video_filepath"), Tok("-i"), Tok("audio_filepath")>>,
             "merge", merge_input_args, merge_output_args, "validate_video",
             [info |-> video_info(duration),
              end_past_video_end |-> end_past_video_end])
    /\ UNCHANGED <<valVars, poolVars, argVars, localVars, disk, result, worker_error, raised_by, reported,
                   resolutions>>

\* a variant that copies the merged file and leaves the '_merge' file
ReplaceWithMergedCopy ==
    /\ pc = "after" /\ call = "merge"
    /\ Exists(disk, "merge")
    /\ disk' = [disk EXCEPT !["video"] = disk["merge"]]
    /\ Downloaded
    /\ UNCHANGED <<valVars, poolVars, argVars, localVars, frameVars, histVars, resolutions>>

\* lines 499-509: the merged file replaces the intermediate one
ReplaceWithMerged ==
    /\ pc = "after" /\ call = "merge"
    /\ Exists(disk, "merge")
    /\ IF Exists(disk, "video")
       THEN /\ disk' = [disk EXCEPT !["video"] = disk["merge"], !["merge"] = "none"]
            /\ Downloaded
       ELSE \* os.remove(video_filepath) raises FileNotFoundError
            /\ WorkerCatches("FileNotFoundError", "download_yt_video")
            /\ UNCHANGED disk
    /\ UNCHANGED <<valVars, poolVars, argVars, localVars, frameVars, histVars, resolutions>>

\* lines 503-509: no merged file; the error is logged, the job returns
MergedMissing ==
    /\ pc = "after" /\ call = "merge"
    /\ ~Exists(disk, "merge")
    /\ Downloaded
    /\ UNCHANGED <<valVars, poolVars, argVars, localVars, frameVars, disk, histVars, resolutions>>

\* lines 507-509 after the video transcode
Finish ==
    /\ pc = "after" /\ call = "video"
    /\ Downloaded
    /\ UNCHANGED <<valVars, poolVars, argVars, localVars, frameVars, disk, histVars, resolutions>>

(***************************************************************************)
(* One job, as segment_mp_worker runs it                                   *)
(***************************************************************************)
\* the job's variables when segment_mp_worker is entered
JobStart ==
    /\ segment \in {[ytid |-> "abc123", ts_start |-> w[1], ts_end |-> w[2]] :
                       w \in Windows}
    /\ video_mode \in VideoModes
    /\ video_codec \in VideoCodecs
    /\ num_retries \in 0..MaxRetries
    /\ video_duration = 0
    /\ duration = segment.ts_end - segment.ts_start
    /\ ts_end = segment.ts_end
    /\ end_past_video_end = FALSE
    /\ call = "none"
    /\ inputs = <<>>
    /\ output_path = "none"
    /\ input_args = <<>>
    /\ output_args = <<>>
    /\ callback = "none"
    /\ validation_args = NoValidation
    /\ attempt = 0
    /\ last_err = None
    /\ disk \in [Paths -> {"none", "old"}]
    /\ pc = "resolve"
    /\ result = "pending"
    /\ worker_error = "none"
    /\ raised_by = "none"
    /\ execs = 0
    /\ last_cmd = NoCommand
    /\ last_outcome = NoAttempt
    /\ corrections = 0
    /\ reported = {}
    /\ resolutions = 0

\* no dispatcher: the job is followed on its own
NoPool ==
    /\ entry = "none"
    /\ manifest = <<>>
    /\ num_workers = 0
    /\ max_videos = 0
    /\ row_idx = 0
    /\ subset_data = <<>>
    /\ dpc = "finished"
    /\ queue = <<>>
    /\ running = {}
    /\ files = {}
    /\ existed = {}
    /\ submitted = <<>>
    /\ resolved = {}
    /\ invoked = {}
    /\ ended = {}
    /\ failed = {}
    /\ torn = {}
    /\ exit_line = 0

\* no validator is called on its own
NoCall == [name |-> "none"]
NotCalled == Raised("notcalled", <<>>, 0, 0)
NoValidate ==
    /\ v_call = NoCall
    /\ v_result = NotCalled

Init == JobStart /\ NoPool /\ NoValidate

Ffmpeg ==
    \/ AttemptPasses
    \/ ExceptAlreadyExists
    \/ ExceptHttpError
    \/ ExceptSubprocessError
    \/ ExceptIncorrectDuration
    \/ ExceptValidationError
    \/ Uncaught
    \/ Exhausted

Next ==
    \/ ResolveFails
    \/ ResolveInvalidMode
    \/ Resolve
    \/ Ffmpeg
    \/ StartVideo
    \/ MergeUnsupported
    \/ StartLossless
    \/ StartMerge
    \/ ReplaceWithMerged
    \/ MergedMissing
    \/ Finish

Spec == Init /\ [][Next]_vars

(***************************************************************************)
(* utils.get_media_filename and the output paths: utils.py 92-93,          *)
(* download_audioset.py 658-660 (and 387-389)                              *)
(***************************************************************************)
\* '{}_{}_{}'.format(ytid, int(ts_start * 1000), int(ts_end * 1000)): the
\* times are held in milliseconds, so the two numbers are the held values
get_media_filename(ytid, start, end) == <<ytid, start, end>>
video_filepath(ytid, start, end) ==
    <<"video", get_media_filename(ytid, start, end), "mp4">>
audio_filepath(ytid, start, end) ==
    <<"audio", get_media_filename(ytid, start, end), "flac">>

\* a variant that names the files after the window in effect
media_filename_of_window ==
    get_media_filename(segment.ytid, segment.ts_start, ts_end)

\* download_yt_video, line 387: the name is made from the arguments, before
\* line 401 gives ts_end the clamped value
media_filename ==
    get_media_filename(segment.ytid, segment.ts_start, segment.ts_end)

\* lines 388-389 and 481-482: the file behind each output path of the job
OutputFile(path) ==
    CASE path = "audio" -> <<"audio", media_filename, "flac">>
      [] path = "video" -> <<"video", media_filename, "mp4">>
      [] path = "merge" -> <<"video", <<media_filename, "_merge">>, "mp4">>

(***************************************************************************)
(* The dispatchers and the pool                                            *)
(***************************************************************************)
\* the rows csv.reader yields: a field is a text, here its first character
\* and the rest; a time field is the text of a number
CommentRow == << <<"#", " YTID, start_seconds, end_seconds">> >>
RowA == << <<"a", "bc123">>, Str(10000), Str(20000) >>
RowB == << <<"x", "yz789">>, Str(0), Str(10000) >>
Rows == {CommentRow, RowA, RowB}
\* malformed rows: an empty row, a row of two fields, a start time that is
\* no number, and a row at which the reader raises csv.Error
EmptyRow == <<>>
ShortRow == << <<"a", "bc123">>, Str(10000) >>
NonNumericRow == << <<"a", "bc123">>, Tok("ten"), Str(20000) >>
CsvErrorRow == << <<"\"", "abc123, 10.0">> >>
MalformedRows == {EmptyRow, ShortRow, NonNumericRow, CsvErrorRow}
\* the files an earlier run may have left: any of the two outputs of RowA
DataPaths ==
    {video_filepath(RowA[1], Float(RowA[2]), Float(RowA[3])),
     audio_filepath(RowA[1], Float(RowA[2]), Float(RowA[3]))}

\* manifests of at most MaxRows rows
MaxRows == 2
Manifests == UNION {[1..n -> Rows] : n \in 0..MaxRows}
\* pools of at most MaxWorkers workers
MaxWorkers == 2

\* line 653 / 746: the row is a comment
IsComment(row) == row[1][1] = "#"

\* float(text) raises ValueError unless the text is that of a number
IsNumber(tok) == Len(tok) = 2 /\ tok[1] = "str"

\* lines 651-655: the exception the reader or the loop body raises on a row
\* before it gets to the skip check, "none" if it raises none
RowError(row) ==
    IF row = CsvErrorRow THEN "csv.Error"
    ELSE IF Len(row) < 1 THEN "IndexError"
    ELSE IF IsComment(row) THEN "none"
    ELSE IF Len(row) < 2 THEN "IndexError"
    ELSE IF ~IsNumber(row[2]) THEN "ValueError"
    ELSE IF Len(row) < 3 THEN "IndexError"
    ELSE IF ~IsNumber(row[3]) THEN "ValueError"
    ELSE "none"

\* lines 744-750: the exception the reader or the reading loop raises
ReadError(row) ==
    IF row = CsvErrorRow THEN "csv.Error"
    ELSE IF Len(row) < 1 THEN "IndexError"
    ELSE "none"

\* line 761: the exception float(row[1]), float(row[2]) raises
FloatError(row) ==
    IF Len(row) < 2 THEN "IndexError"
    ELSE IF ~IsNumber(row[2]) THEN "ValueError"
    ELSE IF Len(row) < 3 THEN "IndexError"
    ELSE IF ~IsNumber(row[3]) THEN "ValueError"
    ELSE "none"

\* row[:3]
FirstThree(row) == SubSeq(row, 1, IF Len(row) < 3 THEN Len(row) ELSE 3)

\* line 661: both outputs of the row exist; the variant looks for the video
\* under the audio extension
AlreadyDownloadedWrongPath(row) ==
    LET ytid == row[1]
        start == Float(row[2])
        end == Float(row[3])
    IN  /\ <<"video", get_media_filename(ytid, start, end), "flac">> \in files
        /\ audio_filepath(ytid, start, end) \in files

\* a variant that takes one of the two files for a finished download
AlreadyDownloadedEither(row) ==
    LET ytid == row[1]
        start == Float(row[2])
        end == Float(row[3])
    IN  \/ video_filepath(ytid, start, end) \in files
        \/ audio_filepath(ytid, start, end) \in files

AlreadyDownloaded(row) ==
    LET ytid == row[1]
        start == Float(row[2])
        end == Float(row[3])
    IN  /\ video_filepath(ytid, start, end) \in files
        /\ audio_filepath(ytid, start, end) \in files

\* history: both outputs of the manifest row exist right now
BothExist(row) ==
    /\ <<"video", <<row[1], Float(row[2]), Float(row[3])>>, "mp4">> \in files
    /\ <<"audio", <<row[1], Float(row[2]), Float(row[3])>>, "flac">> \in files

\* lines 666-667 / 762-763: pool.apply_async(segment_mp_worker, worker_args)
Task(line, row) ==
    [line |-> line, ytid |-> row[1], ts_start |-> Float(row[2]),
     ts_end |-> Float(row[3])]
ApplyAsync(line, row) ==
    /\ queue' = Append(queue, Task(line, row))
    /\ submitted' = Append(submitted, line)

\* download_subset_videos, lines 651-654: a comment row is passed over
SkipComment ==
    /\ entry = "download_subset_videos" /\ dpc = "rows"
    /\ row_idx < Len(manifest)
    /\ RowError(manifest[row_idx + 1]) = "none"
    /\ IsComment(manifest[row_idx + 1])
    /\ row_idx' = row_idx + 1
    /\ UNCHANGED <<valVars, jobVars, torn, exit_line, entry, manifest, num_workers, max_videos,
                   subset_data, dpc, queue, running, files, existed,
                   submitted, resolved, invoked, ended, failed>>

\* lines 655-664: both outputs exist; the row is skipped
SkipDownloaded ==
    /\ entry = "download_subset_videos" /\ dpc = "rows"
    /\ row_idx < Len(manifest)
    /\ RowError(manifest[row_idx + 1]) = "none"
    /\ ~IsComment(manifest[row_idx + 1])
    /\ AlreadyDownloaded(manifest[row_idx + 1])
    /\ existed' = IF BothExist(manifest[row_idx + 1])
                  THEN existed \cup {row_idx + 1} ELSE existed
    /\ row_idx' = row_idx + 1
    /\ UNCHANGED <<valVars, jobVars, torn, exit_line, entry, manifest, num_workers, max_videos,
                   subset_data, dpc, queue, running, files, submitted,
                   resolved, invoked, ended, failed>>

\* lines 655-667: the row is submitted to the pool
Submit ==
    /\ entry = "download_subset_videos" /\ dpc = "rows"
    /\ row_idx < Len(manifest)
    /\ RowError(manifest[row_idx + 1]) = "none"
    /\ ~IsComment(manifest[row_idx + 1])
    /\ ~AlreadyDownloaded(manifest[row_idx + 1])
    /\ ApplyAsync(row_idx + 1, manifest[row_idx + 1])
    /\ existed' = IF BothExist(manifest[row_idx + 1])
                  THEN existed \cup {row_idx + 1} ELSE existed
    /\ row_idx' = row_idx + 1
    /\ UNCHANGED <<valVars, jobVars, torn, exit_line, entry, manifest, num_workers, max_videos,
                   subset_data, dpc, running, files, resolved, invoked, ended, failed>>

\* download_random_subset_files, lines 739-756: the rows that are not
\* comments are read, tagged here with their manifest line, and shuffled
DataLines == {i \in 1..Len(manifest) : ~IsComment(manifest[i])}
Shuffles ==
    {p \in [1..Cardinality(DataLines) -> DataLines] :
        \A i, j \in DOMAIN p : i # j => p[i] # p[j]}

ReadAndShuffle ==
    /\ entry = "download_random_subset_files" /\ dpc = "read"
    /\ \A i \in 1..Len(manifest) : ReadError(manifest[i]) = "none"
    /\ \E p \in Shuffles :
        subset_data' = [i \in DOMAIN p |->
                           [line |-> p[i], row |-> FirstThree(manifest[p[i]])]]
    /\ dpc' = "rows"
    /\ UNCHANGED <<valVars, jobVars, torn, exit_line, entry, manifest, num_workers, max_videos, row_idx,
                   queue, running, files, existed, submitted, resolved,
                   invoked, ended, failed>>

\* a variant that leaves the loop one row after max_videos is reached
SubmitRandomBreaksLate ==
    /\ entry = "download_random_subset_files" /\ dpc = "rows"
    /\ row_idx < Len(subset_data)
    /\ FloatError(subset_data[row_idx + 1].row) = "none"
    /\ LET item == subset_data[row_idx + 1] IN
        /\ ApplyAsync(item.line, item.row)
        /\ existed' = IF BothExist(item.row)
                      THEN existed \cup {item.line} ELSE existed
    /\ row_idx' = row_idx + 1
    /\ dpc' = IF max_videos # 0 /\ row_idx + 1 > max_videos
              THEN "join" ELSE dpc
    /\ UNCHANGED <<valVars, jobVars, torn, exit_line, entry, manifest, num_workers, max_videos,
                   subset_data, running, files, resolved, invoked, ended, failed>>

\* lines 761-771: every row is submitted; the loop breaks at max_videos
SubmitRandom ==
    /\ entry = "download_random_subset_files" /\ dpc = "rows"
    /\ row_idx < Len(subset_data)
    /\ FloatError(subset_data[row_idx + 1].row) = "none"
    /\ LET item == subset_data[row_idx + 1] IN
        /\ ApplyAsync(item.line, item.row)
        /\ existed' = IF BothExist(item.row)
                      THEN existed \cup {item.line} ELSE existed
    /\ row_idx' = row_idx + 1
    /\ dpc' = IF max_videos # 0 /\ row_idx + 1 >= max_videos
              THEN "join" ELSE dpc
    /\ UNCHANGED <<valVars, jobVars, torn, exit_line, entry, manifest, num_workers, max_videos,
                   subset_data, running, files, resolved, invoked, ended, failed>>

\* the loop over the rows ends; lines 678-680 / 775-777: pool.close()
Close ==
    /\ dpc = "rows"
    /\ row_idx = (IF entry = "download_subset_videos"
                  THEN Len(manifest) ELSE Len(subset_data))
    /\ dpc' = "join"
    /\ UNCHANGED <<valVars, jobVars, torn, exit_line, entry, manifest, num_workers, max_videos, row_idx,
                   subset_data, queue, running, files, existed, submitted,
                   resolved, invoked, ended, failed>>

\* lines 681 / 778: pool.join() returns once every task has run; the exit
\* or the exception pending from the loop then ends the process
Join ==
    /\ dpc \in {"join", "drain", "drain_fatal", "drain_crash"}
    /\ queue = <<>>
    /\ running = {}
    /\ dpc' = CASE dpc = "join" -> "finished"
              [] dpc = "drain" -> "exited"
              [] dpc = "drain_fatal" -> "fatal"
              [] dpc = "drain_crash" -> "crashed"
    /\ UNCHANGED <<valVars, jobVars, torn, exit_line, entry, manifest, num_workers, max_videos, row_idx,
                   subset_data, queue, running, files, existed, submitted,
                   resolved, invoked, ended, failed>>

(***************************************************************************)
(* Malformed rows: lines 651-655, 671-681 / 744-753, 761, 775-778         *)
(***************************************************************************)
\* download_subset_videos, lines 671-674: the reader raises csv.Error.
\* The handler formats its message with row_idx + 1, row_idx being the
\* index of the last row the reader yielded; before the first row there is
\* none and the handler itself raises NameError.  The finally clause closes
\* and joins the pool before the process ends.
CsvError ==
    /\ entry = "download_subset_videos" /\ dpc = "rows"
    /\ row_idx < Len(manifest)
    /\ RowError(manifest[row_idx + 1]) = "csv.Error"
    /\ IF row_idx = 0
       THEN dpc' = "drain_crash" /\ exit_line' = 0
       ELSE dpc' = "drain_fatal" /\ exit_line' = (row_idx - 1) + 1
    /\ UNCHANGED <<valVars, jobVars, torn, entry, manifest, num_workers, max_videos,
                   row_idx, subset_data, queue, running, files, existed,
                   submitted, resolved, invoked, ended, failed>>

\* lines 653-655: row[0][0], row[1], row[2] or float() raises IndexError or
\* ValueError, which no except clause names; the finally clause closes and
\* joins the pool and the exception ends the process with a traceback
RowRaises ==
    /\ entry = "download_subset_videos" /\ dpc = "rows"
    /\ row_idx < Len(manifest)
    /\ RowError(manifest[row_idx + 1]) \in {"IndexError", "ValueError"}
    /\ dpc' = "drain_crash"
    /\ UNCHANGED <<valVars, jobVars, torn, exit_line, entry, manifest, num_workers,
                   max_videos, row_idx, subset_data, queue, running, files,
                   existed, submitted, resolved, invoked, ended, failed>>

\* download_random_subset_files, lines 742-753: the reading loop stops at
\* the first row that raises; there is no pool yet
FirstReadError ==
    CHOOSE i \in 1..Len(manifest) :
        /\ ReadError(manifest[i]) # "none"
        /\ \A k \in 1..(i - 1) : ReadError(manifest[k]) = "none"

ReadRaises ==
    /\ entry = "download_random_subset_files" /\ dpc = "read"
    /\ \E i \in 1..Len(manifest) : ReadError(manifest[i]) # "none"
    /\ IF ReadError(manifest[FirstReadError]) = "csv.Error" /\ FirstReadError > 1
       THEN dpc' = "fatal" /\ exit_line' = (FirstReadError - 2) + 1
       ELSE dpc' = "crashed" /\ exit_line' = 0
    /\ UNCHANGED <<valVars, jobVars, torn, entry, manifest, num_workers, max_videos,
                   row_idx, subset_data, queue, running, files, existed,
                   submitted, resolved, invoked, ended, failed>>

\* line 761: float(row[1]) or float(row[2]) raises in the submission loop
SubmitRandomRaises ==
    /\ entry = "download_random_subset_files" /\ dpc = "rows"
    /\ row_idx < Len(subset_data)
    /\ FloatError(subset_data[row_idx + 1].row) # "none"
    /\ dpc' = "drain_crash"
    /\ UNCHANGED <<valVars, jobVars, torn, exit_line, entry, manifest, num_workers,
                   max_videos, row_idx, subset_data, queue, running, files,
                   existed, submitted, resolved, invoked, ended, failed>>

(***************************************************************************)
(* KeyboardInterrupt in the dispatcher: lines 675-684 / 772-781            *)
(***************************************************************************)
\* a variant in which exit() ends the process at once
InterruptExitsAtOnce ==
    /\ dpc = "rows"
    /\ dpc' = "exited"
    /\ UNCHANGED <<valVars, jobVars, torn, exit_line, entry, manifest, num_workers, max_videos,
                   row_idx, subset_data, queue, running, files, existed,
                   submitted, resolved, invoked, ended, failed>>

\* lines 675-680 / 772-777: KeyboardInterrupt in the submission loop; exit()
\* raises SystemExit, and the finally clause closes the pool and joins it
Interrupt ==
    /\ dpc = "rows"
    /\ dpc' = "drain"
    /\ UNCHANGED <<valVars, jobVars, torn, exit_line, entry, manifest, num_workers, max_videos,
                   row_idx, subset_data, queue, running, files, existed,
                   submitted, resolved, invoked, ended, failed>>

\* the paths the running jobs are writing to
PathsInProgress ==
    {audio_filepath(j.task.ytid, j.task.ts_start, j.task.ts_end) :
        j \in {k \in running : k.stage = "audio"}}
    \cup {video_filepath(j.task.ytid, j.task.ts_start, j.task.ts_end) :
            j \in {k \in running : k.stage = "video"}}

\* lines 681-684 / 778-781: KeyboardInterrupt while pool.join() waits;
\* exit() ends the process and with it the pool's processes.  The tasks in
\* the queue never run; an attempt in progress is cut short and may leave
\* what it has written so far at its output path.
InterruptJoin ==
    /\ dpc \in {"join", "drain"}
    /\ dpc' = "abandoned"
    /\ queue' = <<>>
    /\ running' = {}
    /\ \E left \in SUBSET (PathsInProgress \ files) :
        /\ files' = files \cup left
        /\ torn' = left
    /\ UNCHANGED <<valVars, jobVars, exit_line, entry, manifest, num_workers, max_videos, row_idx,
                   subset_data, existed, submitted, resolved, invoked, ended,
                   failed>>

(***************************************************************************)
(* The pool: num_workers processes, each running segment_mp_worker on one  *)
(* task at a time.  running holds the tasks in progress with the stage     *)
(* each has reached.  A job is followed in outline here, one step per      *)
(* external call; Spec follows its retry loops.                            *)
(***************************************************************************)
At(task, stage) == [task |-> task, stage |-> stage]

\* a variant in which a task is started although every process is busy
WorkerTakesWhileBusy ==
    /\ queue # <<>>
    /\ running' = running \cup {At(Head(queue), "resolve")}
    /\ queue' = Tail(queue)
    /\ UNCHANGED <<valVars, jobVars, torn, exit_line, entry, manifest, num_workers, max_videos, row_idx,
                   subset_data, dpc, files, existed, submitted, resolved,
                   invoked, ended, failed>>

\* an idle process takes the oldest task and enters segment_mp_worker
WorkerTakes ==
    /\ Cardinality(running) < num_workers
    /\ queue # <<>>
    /\ running' = running \cup {At(Head(queue), "resolve")}
    /\ queue' = Tail(queue)
    /\ UNCHANGED <<valVars, jobVars, torn, exit_line, entry, manifest, num_workers, max_videos, row_idx,
                   subset_data, dpc, files, existed, submitted, resolved,
                   invoked, ended, failed>>

\* download_yt_video 394-415: the source resolves
JobResolves(j) ==
    /\ j.stage = "resolve"
    /\ resolved' = resolved \cup {j.task.line}
    /\ running' = (running \ {j}) \cup {At(j.task, "audio")}
    /\ UNCHANGED <<valVars, jobVars, torn, exit_line, entry, manifest, num_workers, max_videos, row_idx,
                   subset_data, dpc, queue, files, existed, submitted,
                   invoked, ended, failed>>

\* a variant in which the exception reaches the pool and ends it
JobResolveFailsEndsPool(j) ==
    /\ j.stage = "resolve"
    /\ resolved' = resolved \cup {j.task.line}
    /\ running' = {}
    /\ queue' = <<>>
    /\ UNCHANGED <<valVars, jobVars, torn, exit_line, entry, manifest, num_workers, max_videos, row_idx,
                   subset_data, dpc, files, existed, submitted, invoked, ended,
                   failed>>

\* 394, 547-555: the resolution raises; the worker logs it and returns
JobResolveFails(j) ==
    /\ j.stage = "resolve"
    /\ resolved' = resolved \cup {j.task.line}
    /\ ended' = ended \cup {j.task.line}
    /\ failed' = failed \cup {j.task.line}
    /\ running' = running \ {j}
    /\ UNCHANGED <<valVars, jobVars, torn, exit_line, entry, manifest, num_workers, max_videos, row_idx,
                   subset_data, dpc, queue, files, existed, submitted, invoked>>

\* what a call of ffmpeg() may leave at its output path
Outcomes(path) == {files \cup {path}, files \ {path}}

\* 439-443: ffmpeg() for the audio file returns
JobAudio(j) ==
    /\ j.stage = "audio"
    /\ files' \in Outcomes(audio_filepath(j.task.ytid, j.task.ts_start,
                                          j.task.ts_end))
    /\ invoked' = invoked \cup {j.task.line}
    /\ running' = (running \ {j}) \cup {At(j.task, "video")}
    /\ UNCHANGED <<valVars, jobVars, torn, exit_line, entry, manifest, num_workers, max_videos, row_idx,
                   subset_data, dpc, queue, existed, submitted, resolved, ended, failed>>

\* 439-443, 547-555: ffmpeg() for the audio file raises; the worker logs
\* the exception and returns
JobAudioRaises(j) ==
    /\ j.stage = "audio"
    /\ files' \in Outcomes(audio_filepath(j.task.ytid, j.task.ts_start,
                                          j.task.ts_end))
    /\ invoked' = invoked \cup {j.task.line}
    /\ ended' = ended \cup {j.task.line}
    /\ failed' = failed \cup {j.task.line}
    /\ running' = running \ {j}
    /\ UNCHANGED <<valVars, jobVars, torn, exit_line, entry, manifest, num_workers, max_videos, row_idx,
                   subset_data, dpc, queue, existed, submitted, resolved>>

\* 445-509, 547-555: ffmpeg() for the video file; the job returns, or it
\* raises and the worker logs the exception; segment_mp_worker returns
JobVideo(j) ==
    /\ j.stage = "video"
    /\ files' \in Outcomes(video_filepath(j.task.ytid, j.task.ts_start,
                                          j.task.ts_end))
    /\ invoked' = invoked \cup {j.task.line}
    /\ ended' = ended \cup {j.task.line}
    /\ failed' \in {failed, failed \cup {j.task.line}}
    /\ running' = running \ {j}
    /\ UNCHANGED <<valVars, jobVars, torn, exit_line, entry, manifest, num_workers, max_videos, row_idx,
                   subset_data, dpc, queue, existed, submitted, resolved>>

\* the job's variables are not used: the jobs are followed in outline
NoJob ==
    /\ segment = [ytid |-> "none", ts_start |-> 0, ts_end |-> 0]
    /\ video_mode = "bestvideoaudio"
    /\ video_codec = "h264"
    /\ num_retries = 0
    /\ video_duration = 0
    /\ duration = 0
    /\ ts_end = 0
    /\ end_past_video_end = FALSE
    /\ call = "none"
    /\ inputs = <<>>
    /\ output_path = "none"
    /\ input_args = <<>>
    /\ output_args = <<>>
    /\ callback = "none"
    /\ validation_args = NoValidation
    /\ attempt = 0
    /\ last_err = None
    /\ disk = [p \in Paths |-> "none"]
    /\ pc = "done"
    /\ result = "pending"
    /\ worker_error = "none"
    /\ raised_by = "none"
    /\ execs = 0
    /\ last_cmd = NoCommand
    /\ last_outcome = NoAttempt
    /\ corrections = 0
    /\ reported = {}
    /\ resolutions = 0

\* a dispatcher is entered: any manifest, any files left by earlier runs
PoolStartOn(manifests) ==
    /\ entry \in {"download_subset_videos", "download_random_subset_files"}
    /\ manifest \in manifests
    /\ num_workers \in 1..MaxWorkers
    /\ max_videos \in (IF entry = "download_random_subset_files"
                       THEN 0..MaxRows ELSE {0})
    /\ row_idx = 0
    /\ subset_data = <<>>
    /\ dpc = IF entry = "download_random_subset_files" THEN "read" ELSE "rows"
    /\ queue = <<>>
    /\ running = {}
    /\ files \in SUBSET DataPaths
    /\ existed = {}
    /\ submitted = <<>>
    /\ resolved = {}
    /\ invoked = {}
    /\ ended = {}
    /\ failed = {}
    /\ torn = {}
    /\ exit_line = 0

PoolStart == PoolStartOn(Manifests)

InitDispatch == NoJob /\ PoolStart /\ NoValidate

NextDispatch ==
    \/ SkipComment
    \/ SkipDownloaded
    \/ Submit
    \/ ReadAndShuffle
    \/ SubmitRandom
    \/ Close
    \/ Join
    \/ WorkerTakes
    \/ \E j \in running : JobResolves(j)
    \/ \E j \in running : JobResolveFails(j)
    \/ \E j \in running : JobAudio(j)
    \/ \E j \in running : JobAudioRaises(j)
    \/ \E j \in running : JobVideo(j)

SpecDispatch == InitDispatch /\ [][NextDispatch]_vars

\* runs over manifests that may hold malformed rows
AnyRows == Rows \cup MalformedRows
AnyManifests == UNION {[1..n -> AnyRows] : n \in 0..MaxRows}

InitManifest ==
    NoJob /\ PoolStartOn(AnyManifests) /\ files = {} /\ NoValidate

NextManifest ==
    \/ NextDispatch
    \/ CsvError
    \/ RowRaises
    \/ ReadRaises
    \/ SubmitRandomRaises

SpecManifest == InitManifest /\ [][NextManifest]_vars

\* the same runs, with KeyboardInterrupt delivered to the dispatcher
NextInterrupt ==
    \/ NextDispatch
    \/ Interrupt
    \/ InterruptJoin

\* a first run, or a run after RowA was downloaded; no limit on the videos
InitInterrupt ==
    /\ InitDispatch
    /\ files \in {{}, DataPaths}
    /\ max_videos = 0

SpecInterrupt == InitInterrupt /\ [][NextInterrupt]_vars

(***************************************************************************)
(* The validators called on their own: any output file, any target         *)
(***************************************************************************)
\* target durations, and what the file may measure around the target
Targets == {10000, 5000}
AudioMeasured(t) ==
    {t - 1100, t - 701, t - 700, t - 1, t, t + 1, t + 700, t + 701}
VideoMeasured(t) == {t - 1100, t - 800, t - 700, t, t + 700, t + 800}

\* what sox reports: num_samples and the properties, right or wrong
AudioFiles(info) ==
    {[sample_rate |-> info.sample_rate, channels |-> info.channels,
      bitrate |-> info.bitrate, encoding |-> e,
      num_samples |-> (d * info.sample_rate) \div 1000] :
        e \in {info.encoding, "MP3"}, d \in AudioMeasured(info.duration)}

\* what ffprobe reports of the video stream
VideoFiles(info) ==
    {[r_frame_rate |-> info.r_frame_rate,
      avg_frame_rate |-> info.avg_frame_rate,
      codec_name |-> c,
      nb_frames |-> (d * info.r_frame_rate[1]) \div (1000 * info.r_frame_rate[2])] :
        c \in {info.codec_name, "vp9"}, d \in VideoMeasured(info.duration)}

Missing == [exists |-> FALSE, tool |-> "fail", info |-> <<>>]

ValidatorCalls ==
    {[name |-> "validate_audio", probe |-> p, info |-> audio_info(t),
      end_past_video_end |-> b] :
        t \in Targets, b \in BOOLEAN,
        p \in {Missing}
              \cup {[exists |-> TRUE, tool |-> "fail", info |-> <<>>]}
              \cup {[exists |-> TRUE, tool |-> "ok", info |-> i] :
                      i \in UNION {AudioFiles(audio_info(tt)) : tt \in Targets}}}
    \cup
    {[name |-> "validate_video", probe |-> p, info |-> video_info(t),
      end_past_video_end |-> b] :
        t \in Targets, b \in BOOLEAN,
        p \in {Missing}
              \cup {[exists |-> TRUE, tool |-> x, info |-> <<>>] :
                      x \in {"fail", "empty", "novideo"}}
              \cup {[exists |-> TRUE, tool |-> "ok", info |-> i] :
                      i \in UNION {VideoFiles(video_info(tt)) : tt \in Targets}}}

\* validation.py 36-96
ValidateAudio ==
    /\ v_call.name = "validate_audio"
    /\ v_result = NotCalled
    /\ v_result' = validate_audio(v_call.probe, v_call.info,
                                  v_call.end_past_video_end)
    /\ UNCHANGED <<jobVars, poolVars, v_call>>

\* validation.py 99-163
ValidateVideo ==
    /\ v_call.name = "validate_video"
    /\ v_result = NotCalled
    /\ v_result' = validate_video(v_call.probe, v_call.info,
                                  v_call.end_past_video_end)
    /\ UNCHANGED <<jobVars, poolVars, v_call>>

InitValidate ==
    /\ NoJob
    /\ NoPool
    /\ v_call \in ValidatorCalls
    /\ v_result = NotCalled

NextValidate ==
    \/ ValidateAudio
    \/ ValidateVideo

SpecValidate == InitValidate /\ [][NextValidate]_vars

(***************************************************************************)
(* Runs in which every external call returns: a job followed on its own,   *)
(* or a dispatcher with its pool; every step that can be taken is taken    *)
(***************************************************************************)
\* the job starts on an empty data directory; the dispatcher is
\* download_subset_videos, started on an empty data directory
InitLive ==
    \/ Init /\ disk = [p \in Paths |-> "none"]
    \/ InitDispatch /\ entry = "download_subset_videos" /\ files = {}

NextLive ==
    \/ Next
    \/ SkipComment
    \/ SkipDownloaded
    \/ Submit
    \/ Close
    \/ Join
    \/ WorkerTakes
    \/ \E j \in running : JobResolves(j)
    \/ \E j \in running : JobResolveFails(j)
    \/ \E j \in running : JobAudio(j)
    \/ \E j \in running : JobAudioRaises(j)
    \/ \E j \in running : JobVideo(j)

SpecLive == InitLive /\ [][NextLive]_vars /\ WF_vars(NextLive)

(***************************************************************************)
(* Properties of the retry loop and of the job (checked under Spec)        *)
(***************************************************************************)
\* the value after '-t' in a command, and the command with that value blanked
HasT(cmd) ==
    Index(cmd.input_args, "-t") # 0 \/ Index(cmd.output_args, "-t") # 0
TArg(cmd) ==
    IF Index(cmd.input_args, "-t") # 0
    THEN Float(cmd.input_args[Index(cmd.input_args, "-t") + 1])
    ELSE Float(cmd.output_args[Index(cmd.output_args, "-t") + 1])
WithoutT(cmd) ==
    IF Index(cmd.input_args, "-t") # 0
    THEN [cmd EXCEPT !.input_args[Index(cmd.input_args, "-t") + 1] = Str(0)]
    ELSE [cmd EXCEPT !.output_args[Index(cmd.output_args, "-t") + 1] = Str(0)]

\* how the last executed attempt of the call in progress ended
IsAlreadyExists(e) ==
    e.exc = "SubprocessError" /\ EndsWithAlreadyExists(rstrip(e.cmd_stderr))
IsHttpError(e) ==
    /\ e.exc = "SubprocessError"
    /\ ~EndsWithAlreadyExists(rstrip(e.cmd_stderr))
    /\ HTTP_ERR_PATTERN(rstrip(e.cmd_stderr))
IsDurationMismatch(e) == e.exc = "FfmpegIncorrectDurationError"
\* a process failure or a validation failure that is not 'already exists'
IsFailure(e) ==
    /\ e.exc \in {"SubprocessError", "FfmpegValidationError",
                  "FfmpegIncorrectDurationError"}
    /\ ~IsAlreadyExists(e)

\* this step executes one more attempt of the call in progress
NextAttempt == call' = call /\ execs' = execs + 1
\* the call of ffmpeg() in progress is over
CallOver == call # "none" /\ pc \in {"after", "done"}

\* C1: a call of ffmpeg() with budget num_retries never executes the
\* transcoder more than num_retries times, and within a call the attempt
\* counter only moves up, by exactly one per executed attempt.
C1_AttemptsWithinBudget ==
    /\ [](execs <= num_retries /\ attempt <= num_retries /\ attempt = execs)
    /\ [][call' = call =>
            \/ attempt' = attempt /\ execs' = execs
            \/ attempt' = attempt + 1 /\ execs' = execs + 1]_vars

\* C1 witness: a call that used its whole budget of three attempts
C1_Witness ==
    num_retries = 3 /\ execs = 3 /\ attempt = 3 /\ call \in reported

\* C2: when every attempt of a call fails, the call makes exactly
\* num_retries attempts, reports the final failure with the last attempt's
\* error as last error, and returns without raising.
C2_AllFailedReportsFinalFailure ==
    (CallOver /\ num_retries >= 1 /\ IsFailure(last_outcome)) =>
        /\ raised_by # "ffmpeg"
        /\ execs = num_retries
        /\ call \in reported
        /\ last_err = last_outcome

\* C3: a job reported as downloaded has its audio file and its video file
\* on disk, each validated, and no call of it exhausted its budget.
C3_DownloadedMeansValidated ==
    (result = "downloaded" /\ num_retries >= 1) =>
        /\ reported = {}
        /\ disk["audio"] \in {"valid", "old"}
        /\ disk["video"] \in {"valid", "old"}

\* C4: after an attempt that failed (process failure, HTTP failure,
\* duration mismatch, other validation failure), the last of the budget
\* included, the output path holds no file that a failed attempt produced.
C4_FailedAttemptLeavesNoFile ==
    (call # "none" /\ execs >= 1 /\ IsFailure(last_outcome)) =>
        disk[output_path] \notin {"partial", "unchecked", "invalid"}

\* C5: after a duration mismatch (target T, actual A) on an attempt that is
\* not the last, the call stays in its loop with the '-t' argument raised
\* by T - A, and the next attempt runs the previous command with '-t'
\* raised by T - A, nothing else changed, under the next attempt number.
C5_DurationCorrection ==
    /\ []((/\ call # "none"
           /\ IsDurationMismatch(last_outcome)
           /\ execs < num_retries)
          => (/\ pc = "loop"
              /\ attempt = execs
              /\ HasT(last_cmd) /\ HasT(Command)
              /\ TArg(Command) = TArg(last_cmd) + (last_outcome.target_duration
                                                   - last_outcome.actual_duration)
              /\ WithoutT(Command) = WithoutT(last_cmd)))
    /\ [][(NextAttempt /\ IsDurationMismatch(last_outcome))
          => (/\ HasT(last_cmd) /\ HasT(last_cmd')
              /\ TArg(last_cmd') =
                     TArg(last_cmd) + (last_outcome.target_duration
                                       - last_outcome.actual_duration)
              /\ WithoutT(last_cmd') = WithoutT(last_cmd)
              /\ attempt' = attempt + 1
              /\ execs' = attempt')]_vars

\* the effective duration of the job's window: lines 382, 397-402
EffectiveDuration ==
    IF segment.ts_end > video_duration
    THEN video_duration - segment.ts_start
    ELSE segment.ts_end - segment.ts_start

\* C8: the first attempt of the audio transcode and of the video transcode
\* carries the effective duration as '-t' (source length - start for a
\* window ending past the source, end - start otherwise), and both
\* validations take it as their target.
C8_EffectiveDurationUsed ==
    /\ ((call \in {"audio", "video", "inter"} /\ execs = 1)
          => TArg(last_cmd) = EffectiveDuration)
    /\ ((call # "none" /\ callback # "none")
          => validation_args.info.duration = EffectiveDuration)

\* C8 witness: a window ending past the source; the video transcode ran once
C8_Witness ==
    /\ segment.ts_end > video_duration /\ video_duration > segment.ts_start
    /\ call = "video" /\ execs = 1 /\ callback = "validate_video"
    /\ TArg(last_cmd) = video_duration - segment.ts_start

\* C9: the attempt that follows an HTTP 4xx/5xx failure starts with the
\* partial output deleted and runs the very same command.
C9_HttpErrorDeletesPartial ==
    [][(NextAttempt /\ IsHttpError(last_outcome))
          => (/\ disk[output_path] # "partial"
              /\ last_cmd' = last_cmd)]_vars

ReportedExisting(e) ==
    e.exc = "SubprocessError" /\ e.cmd_stderr = StderrExists

\* C11: an attempt on which the transcoder fails reporting that the output
\* already exists ends the call as a success: the loop is left, the file at
\* the output path is neither removed nor changed nor marked by a
\* validation, no final failure is reported, nothing is raised, and the
\* call executes no further attempt.
C11_AlreadyExistsIsSuccess ==
    /\ [][(NextAttempt /\ ReportedExisting(last_outcome'))
            => (/\ pc' = "after"
                /\ disk' = disk
                /\ reported' = reported
                /\ raised_by' = "none")]_vars
    /\ [][(call' = call /\ ReportedExisting(last_outcome))
            => (execs' = execs /\ call \notin reported')]_vars

\* C11 witness: the first audio attempt of a budget of two or more found a
\* file of an earlier run; the call is over after that one execution
C11_Witness ==
    /\ call = "audio" /\ pc = "after"
    /\ num_retries >= 2 /\ execs = 1
    /\ ReportedExisting(last_outcome)
    /\ disk["audio"] = "old"
    /\ reported = {}

(***************************************************************************)
(* Properties of the dispatchers                                           *)
(***************************************************************************)
SubmittedLines == {submitted[i] : i \in DOMAIN submitted}
\* the manifest lines for which pool work of any kind was done
Worked == SubmittedLines \cup resolved \cup invoked

\* C6: in download_subset_videos, a row whose audio and video files both
\* exist when the dispatcher reaches it is not submitted to the pool, and no
\* source resolution and no subprocess is run for it
C6_SkippedRowDoesNoWork ==
    entry = "download_subset_videos" => existed \cap Worked = {}

\* a run of download_subset_videos that skipped its first row, whose files
\* existed, and downloaded its second
C6_Witness ==
    /\ entry = "download_subset_videos"
    /\ dpc = "finished"
    /\ existed = {1}
    /\ submitted = <<2>>
    /\ invoked = {2}
    /\ ended = {2}

\* C7: under every dispatcher entry point, no row whose audio and video
\* files both exist when it is reached is submitted, resolved or transcoded
C7_EveryEntryPointSkips ==
    existed \cap Worked = {}

\* C12: an exception raised inside one job is logged by segment_mp_worker,
\* which returns: the step leaves the dispatcher, the queue and every other
\* running job as they were, and when the run is over every submitted job
\* has run to its end, the failed ones included.
C12_JobFailureStaysInJob ==
    /\ [](failed \subseteq ended)
    /\ [](dpc = "finished" => SubmittedLines = ended)
    /\ [][\A j \in running :
            (j.task.line \in failed' \ failed)
              => (/\ running' = running \ {j}
                  /\ queue' = queue
                  /\ dpc' = dpc
                  /\ row_idx' = row_idx)]_vars

\* C12 witness: the job of line 1 failed at its resolution; the run is over
\* and the job of line 2 was transcoded to its end
C12_Witness ==
    /\ dpc = "finished"
    /\ submitted = <<1, 2>>
    /\ failed = {1}
    /\ ended = {1, 2}
    /\ invoked = {2}

RunningLines == {j.task.line : j \in running}
QueuedLines == {queue[i].line : i \in DOMAIN queue}

\* C13: at most num_workers jobs are executing; a job is executed once, as
\* one task that is neither queued nor ended while it runs and that stops
\* running only by running to its end; and a task is started only while
\* fewer than num_workers jobs are executing.
C13_AtMostNumWorkersJobs ==
    /\ [](Cardinality(running) <= num_workers)
    /\ [](/\ Cardinality(RunningLines) = Cardinality(running)
          /\ RunningLines \cap (ended \cup QueuedLines) = {})
    /\ [][/\ (RunningLines \ RunningLines') \subseteq ended'
          /\ (RunningLines' \ RunningLines # {}
                => Cardinality(running) < num_workers)]_vars

\* C13 witness: one worker; it runs the job of line 1 while the job of
\* line 2 waits in the queue
C13_Witness ==
    /\ num_workers = 1
    /\ RunningLines = {1}
    /\ QueuedLines = {2}

\* the output paths of a task: download_yt_video 387-389
AudioPathOf(t) == audio_filepath(t.ytid, t.ts_start, t.ts_end)
VideoPathOf(t) == video_filepath(t.ytid, t.ts_start, t.ts_end)

\* C14: no two jobs that are executing at the same time have the same audio
\* output path or the same video output path.
C14_RunningJobsHaveDistinctPaths ==
    \A j, k \in running :
        j.task.line # k.task.line
          => (/\ AudioPathOf(j.task) # AudioPathOf(k.task)
              /\ VideoPathOf(j.task) # VideoPathOf(k.task))

\* C15: once the dispatcher has observed a KeyboardInterrupt in its
\* submission loop it submits no further row, and the process exits only
\* after every submitted job has run to its end, unless a further
\* interruption makes it abandon them.
C15_InterruptStopsSubmission ==
    /\ [][(dpc \in {"drain", "exited", "abandoned"})
            => (submitted' = submitted /\ row_idx' = row_idx)]_vars
    /\ [][(dpc = "drain" /\ dpc' # "drain")
            => dpc' \in {"exited", "abandoned"}]_vars
    /\ [](dpc = "exited"
            => (queue = <<>> /\ running = {} /\ SubmittedLines = ended))

\* C15 witness: interrupted after the first of two rows was submitted; the
\* process exited once that job had run to its end, the second row never
\* submitted
C15_Witness ==
    /\ dpc = "exited"
    /\ entry = "download_subset_videos"
    /\ manifest = <<RowA, RowB>>
    /\ submitted = <<1>>
    /\ ended = {1}
    /\ invoked = {1}

\* C16: when the run has exited after an interruption, no output path holds
\* a file of an attempt that did not complete and pass validation.
C16_NoTornFileAfterExit ==
    dpc \in {"exited", "abandoned"} => torn \cap files = {}

\* the first malformed row of the manifest, 0 if there is none
Malformed(row) == row \in MalformedRows
FirstMalformed ==
    IF \E i \in 1..Len(manifest) : Malformed(manifest[i])
    THEN CHOOSE i \in 1..Len(manifest) :
            /\ Malformed(manifest[i])
            /\ \A k \in 1..(i - 1) : ~Malformed(manifest[k])
    ELSE 0

\* C17: a run over a manifest with a malformed row ends by sys.exit with a
\* message that names the line of that row, not by returning and not by a
\* traceback; no row after the malformed one is ever submitted, and the
\* malformed row itself is never given to the pool.
C17_MalformedRowIsFatal ==
    FirstMalformed # 0 =>
        /\ \A line \in SubmittedLines : line < FirstMalformed
        /\ dpc \in {"finished", "fatal", "crashed"}
             => (dpc = "fatal" /\ exit_line = FirstMalformed)

(***************************************************************************)
(* Properties of the validators (checked under SpecValidate)               *)
(***************************************************************************)
\* the duration the analyser measured, in milliseconds: num_samples over
\* the sample rate, or nb_frames over the frame rate
Measured(c) ==
    IF c.name = "validate_audio"
    THEN (c.probe.info.num_samples * 1000) \div c.info.sample_rate
    ELSE (c.probe.info.nb_frames * 1000 * c.probe.info.r_frame_rate[2])
             \div c.probe.info.r_frame_rate[1]
Distance(a, b) == IF a >= b THEN a - b ELSE b - a
WasMeasured(c) == c.name # "none" /\ c.probe.exists /\ c.probe.tool = "ok"
Returned == v_result # NotCalled

\* C18: a validator that measured its file raises
\* FfmpegIncorrectDurationError, carrying the target and the measured
\* duration, exactly when the two differ by more than TOL (0.7 s); the
\* properties of the file, right or wrong, do not change that.
C18_DurationMismatchBeyondTolerance ==
    (Returned /\ WasMeasured(v_call)) =>
        /\ (v_result.exc = "FfmpegIncorrectDurationError")
             <=> (Distance(Measured(v_call), v_call.info.duration) > TOL)
        /\ (v_result.exc = "FfmpegIncorrectDurationError")
             => (/\ v_result.target_duration = v_call.info.duration
                 /\ v_result.actual_duration = Measured(v_call))

\* C18 witness: an audio file 0.7 s longer than its target and of the wrong
\* encoding; the validator reported the encoding, not the duration
C18_Witness ==
    /\ v_call.name = "validate_audio"
    /\ WasMeasured(v_call)
    /\ Measured(v_call) = v_call.info.duration + TOL
    /\ v_call.probe.info.encoding # v_call.info.encoding
    /\ v_result = FfmpegValidationError

\* C19: validating a path at which no file exists raises
\* FfmpegValidationError itself (no SubprocessError, no duration mismatch),
\* in validate_audio and in validate_video.
C19_MissingFileIsValidationError ==
    (Returned /\ ~v_call.probe.exists) => v_result.exc = "FfmpegValidationError"

\* C20: a job whose source cannot be resolved is marked failed only once
\* the resolution has been tried as many times as the retry budget allows.
C20_ResolutionFailureIsRetried ==
    (/\ pc = "done"
     /\ worker_error = "SourceUnavailable"
     /\ num_retries >= 1)
        => resolutions = num_retries

(***************************************************************************)
(* Properties of the merge mode and of the job's paths                     *)
(***************************************************************************)
\* the merge call ended on an attempt that ran and validated
MergeSucceeded ==
    /\ video_mode = "bestvideowithaudio"
    /\ call = "merge"
    /\ last_outcome = NoError

\* the file at the video path is the one the intermediate call produced:
\* that call has no validation, so its passing attempt leaves it unchecked
IntermediateSucceeded == disk["video"] = "unchecked"

\* C21: in merge mode, a job whose intermediate transcode and merge
\* transcode succeeded and whose merged file validated ends as downloaded
\* with the validated merged file at the final video path and no file at
\* the '_merge' path (the intermediate file is gone, replaced).
C21_MergeReplacesIntermediate ==
    /\ []((MergeSucceeded /\ pc = "after") => disk["merge"] = "valid")
    /\ [][(MergeSucceeded /\ pc = "after" /\ IntermediateSucceeded)
            => (/\ pc' = "done"
                /\ result' = "downloaded"
                /\ disk'["video"] = "valid"
                /\ disk'["merge"] = "none"
                /\ disk'["audio"] = disk["audio"])]_vars
    /\ []((MergeSucceeded /\ pc = "done") =>
            (/\ result = "downloaded"
             /\ disk["video"] = "valid"
             /\ disk["merge"] = "none"))

\* C21 witness: a merge-mode job over after one lossless transcode and one
\* merge; the validated file is at the video path, no '_merge' file is left
C21_Witness ==
    /\ MergeSucceeded
    /\ pc = "done"
    /\ execs = 1
    /\ result = "downloaded"
    /\ disk["video"] = "valid"
    /\ disk["merge"] = "none"

\* the number of jobs download_random_subset_files is to submit
Smaller(a, b) == IF a <= b THEN a ELSE b
ExpectedRandom ==
    IF max_videos = 0 THEN Cardinality(DataLines)
    ELSE Smaller(max_videos, Cardinality(DataLines))

\* C22: download_random_subset_files with max_videos = m >= 1 never has
\* more than m jobs submitted and, once its loop is over, has submitted
\* exactly min(m, number of non-comment rows) of them, each a different
\* non-comment row; with max_videos = None it has submitted every
\* non-comment row.
C22_RandomSubsetSize ==
    entry = "download_random_subset_files" =>
        /\ (max_videos # 0) => (Len(submitted) <= max_videos)
        /\ \A i, j \in 1..Len(submitted) :
               (i # j) => (submitted[i] # submitted[j])
        /\ \A i \in 1..Len(submitted) : submitted[i] \in DataLines
        /\ (dpc \in {"join", "finished"}) => (Len(submitted) = ExpectedRandom)

\* C22 witness: two data rows and max_videos = 1; the run is over with one
\* job submitted and run
C22_Witness ==
    /\ entry = "download_random_subset_files"
    /\ dpc = "finished"
    /\ max_videos = 1
    /\ Cardinality(DataLines) = 2
    /\ Len(submitted) = 1
    /\ ended = {submitted[1]}

\* the two files the skip check tests for the row the job was submitted for
TestedAudio == audio_filepath(segment.ytid, segment.ts_start, segment.ts_end)
TestedVideo == video_filepath(segment.ytid, segment.ts_start, segment.ts_end)

\* C23: the files a job writes are named after the job's arguments alone:
\* the basename is (id, start ms, end ms) of the request, the audio and the
\* video file are the two files the dispatcher's skip check tests for the
\* row, also when the end was clamped, and no retry or correction changes
\* the output path of a call.
C23_PathsAreThoseOfTheRequest ==
    /\ [](media_filename = <<segment.ytid, segment.ts_start, segment.ts_end>>)
    /\ []((call \in {"audio", "video", "inter"}) =>
            (/\ output_path = (IF call = "audio" THEN "audio" ELSE "video")
             /\ OutputFile(output_path) =
                    (IF call = "audio" THEN TestedAudio ELSE TestedVideo)))
    /\ [][(call' = call) => (output_path' = output_path)]_vars
    /\ []((execs > 0) => (last_cmd.output_path = output_path))

\* C23 witness: a job whose end was clamped wrote its video file on a
\* second attempt, after a duration correction
C23_Witness ==
    /\ end_past_video_end
    /\ ts_end # segment.ts_end
    /\ call = "video"
    /\ execs = 2
    /\ last_outcome = NoError
    /\ last_cmd.output_args # video_output_args(duration)
    /\ OutputFile(last_cmd.output_path) = TestedVideo

\* C24: for every call that has a validation callback (audio, video,
\* merge), an attempt whose validation reports a duration mismatch is
\* followed by a correction and stays inside ffmpeg(): no exception leaves
\* ffmpeg() from it.
C24_DurationMismatchNeverEscapes ==
    (/\ callback # "none"
     /\ last_outcome.exc = "FfmpegIncorrectDurationError")
        => raised_by # "ffmpeg"

\* a process failure (HTTP or other, 'already exists' apart) or a validation
\* failure that is no duration mismatch
IsPlainFailure(e) ==
    /\ e.exc \in {"SubprocessError", "FfmpegValidationError"}
    /\ ~IsAlreadyExists(e)

\* C25: an attempt of ffmpeg() that fails with a process error or with a
\* validation failure other than a duration mismatch leaves both argument
\* lists as they were, and the attempt after it executes the same command;
\* within a call the argument lists change only on an attempt that ends
\* in a duration mismatch.
C25_ArgumentsChangeOnlyByCorrection ==
    /\ [][(NextAttempt /\ IsPlainFailure(last_outcome'))
            => (/\ input_args' = input_args
                /\ output_args' = output_args
                /\ inputs' = inputs
                /\ Command' = last_cmd')]_vars
    /\ [][(NextAttempt /\ execs >= 1 /\ IsPlainFailure(last_outcome))
            => (last_cmd' = last_cmd)]_vars
    /\ [][(call' = call /\ (input_args' # input_args \/ output_args' # output_args))
            => (NextAttempt /\ IsDurationMismatch(last_outcome'))]_vars

\* C25 witness: the third attempt of the video call ran the command of the
\* second, which had failed validation for the codec, the first having
\* ended in a duration mismatch that changed the command
C25_Witness ==
    /\ call = "video"
    /\ execs = 3
    /\ last_outcome = NoError
    /\ last_err = FfmpegValidationError
    /\ last_cmd = Command
    /\ last_cmd.output_args # video_output_args(duration)

(***************************************************************************)
(* Order of the events of a job                                            *)
(***************************************************************************)
\* the attempt that ended in e got as far as the validation callback: it
\* passed or failed validation, or the prober itself failed (the only
\* process failure with nothing on stderr)
ValidationRan(e) ==
    /\ callback # "none"
    /\ \/ e.exc # "SubprocessError"
       \/ e.cmd_stderr = StderrEmpty

\* the order in which download_yt_video makes its calls of ffmpeg()
CallOrder ==
    {<<"none", "audio">>, <<"audio", "video">>, <<"audio", "inter">>,
     <<"inter", "merge">>}

\* C26: within a job the source is resolved before any transcoder runs; the
\* calls come in the order audio, then video (or intermediate, then merge),
\* each call's attempts falling inside that call; an attempt is validated
\* only if its transcoder returned 0, which with '-n' it can only do when
\* the output path was free; a job whose resolution failed runs no
\* transcoder.
C26_OrderOfEvents ==
    /\ []((call # "none" \/ execs > 0) => (resolutions = 1 /\ video_duration > 0))
    /\ [][(call' # call) => (<<call, call'>> \in CallOrder)]_vars
    /\ [][(execs' # execs) =>
            \/ NextAttempt /\ pc = "loop"
            \/ call' # call /\ execs' = 0]_vars
    /\ [][(NextAttempt /\ ValidationRan(last_outcome'))
            => ~Exists(disk, output_path)]_vars
    /\ []((worker_error = "SourceUnavailable")
            => (call = "none" /\ execs = 0 /\ last_cmd = NoCommand
                /\ disk \in [Paths -> {"none", "old"}]))

\* C26 witness: a job at the end of its video call, one attempt each, both
\* files validated, the source resolved once
C26_Witness ==
    /\ resolutions = 1
    /\ call = "video"
    /\ pc = "after"
    /\ execs = 1
    /\ disk["audio"] = "valid"
    /\ disk["video"] = "valid"

(***************************************************************************)
(* Submission by download_subset_videos                                    *)
(***************************************************************************)
\* C27: download_subset_videos, on a well-formed manifest and with no
\* interruption, goes through the rows one by one; on reaching a row it
\* submits it if and only if the row is no comment and its two output
\* files do not both exist at that moment; nothing else submits; so each
\* such row is submitted exactly once, in manifest order, and the loop
\* ends only when every row has been reached.
C27_EveryMissingRowSubmittedOnce ==
    /\ [][(entry = "download_subset_videos" /\ row_idx' # row_idx) =>
            (/\ row_idx' = row_idx + 1
             /\ submitted' =
                  (IF /\ ~IsComment(manifest[row_idx + 1])
                      /\ ~BothExist(manifest[row_idx + 1])
                   THEN Append(submitted, row_idx + 1)
                   ELSE submitted))]_vars
    /\ [][(entry = "download_subset_videos" /\ submitted' # submitted)
            => (row_idx' = row_idx + 1)]_vars
    /\ []((entry = "download_subset_videos") =>
            (/\ \A i, j \in 1..Len(submitted) :
                    (i < j) => (submitted[i] < submitted[j])
             /\ \A i \in 1..Len(submitted) :
                    submitted[i] <= row_idx /\ ~IsComment(manifest[submitted[i]])
             /\ (dpc \in {"join", "finished"}) => (row_idx = Len(manifest))))

\* C27 witness: a finished run over two data rows, the files of the first
\* of which existed: the second alone was submitted, and ran
C27_Witness ==
    /\ entry = "download_subset_videos"
    /\ dpc = "finished"
    /\ manifest = <<RowA, RowB>>
    /\ existed = {1}
    /\ submitted = <<2>>
    /\ ended = {2}

(***************************************************************************)
(* Termination (checked under SpecLive)                                    *)
(***************************************************************************)
\* C28: if every external call returns, every call of ffmpeg() is left
\* after at most num_retries attempts, the job ends, every job submitted
\* to the pool ends, and the dispatcher returns with the pool drained: the
\* run reaches, and stays in, the state in which the job is over, the
\* dispatcher has returned, the pool is empty and every submitted job
\* has run to its end.
C28_EverythingTerminates ==
    /\ [](execs <= num_retries)
    /\ [][(call' = call /\ pc = "loop" /\ pc' = "loop") => (execs' > execs)]_vars
    /\ <>[](/\ pc = "done"
            /\ dpc = "finished"
            /\ queue = <<>>
            /\ running = {}
            /\ SubmittedLines = ended)

\* C28 witness: a merge call that used its whole budget of three attempts
\* and returned; the job went on to its end
C28_Witness ==
    /\ call = "merge"
    /\ num_retries = 3
    /\ execs = 3
    /\ "merge" \in reported
    /\ pc = "done"

(***************************************************************************)
(* The duration argument over the retries of a call                        *)
(***************************************************************************)
\* C29: over the attempts of one call of ffmpeg() the validation callback
\* and its arguments (the target duration with them) stay what they were
\* at entry, and of the command only the value after '-t' changes: every
\* attempt is executed with '-t' equal to the initial duration plus the sum
\* of target - actual over the duration mismatches the call has had so far.
C29_DurationArgumentAccumulates ==
    /\ [][(call' = call) =>
            (/\ callback' = callback
             /\ validation_args' = validation_args
             /\ inputs' = inputs
             /\ (HasT(Command) => (HasT(Command') /\ WithoutT(Command') = WithoutT(Command))))]_vars
    /\ []((callback # "none") => (validation_args.info.duration = duration))
    /\ [][(NextAttempt /\ HasT(last_cmd'))
            => (TArg(last_cmd') = duration + corrections)]_vars
    /\ []((call # "none" /\ HasT(Command) /\ raised_by # "ffmpeg")
            => (TArg(Command) = duration + corrections))

\* C29 witness: the third attempt of the audio call, after two duration
\* mismatches that measured 1.1 s too little each, ran with '-t' raised by
\* 2.2 s and validated against the unchanged target
C29_Witness ==
    /\ call = "audio"
    /\ execs = 3
    /\ last_outcome = NoError
    /\ corrections = 2200
    /\ TArg(last_cmd) = duration + 2200
    /\ validation_args.info.duration = duration

\* C30: a merge-mode job that has ended, however its intermediate and
\* merge transcodes went, has left at the final video path nothing that it
\* wrote itself other than a merged file that passed validation.
C30_FinalVideoIsValidatedMerge ==
    (video_mode = "bestvideowithaudio" /\ pc = "done")
        => disk["video"] \in {"none", "old", "valid"}

(***************************************************************************)
(* Files of earlier runs                                                   *)
(***************************************************************************)
\* C31: a file that was at an output path before the job started is
\* neither deleted nor replaced by any step of a call of ffmpeg(),
\* whatever the outcome of the attempt.
C31_ExistingOutputIsKept ==
    [][\A p \in Paths :
          (pc = "loop" /\ disk[p] = "old") => (disk'[p] = "old")]_vars

\* C32: every command a job executes with a '-t' argument has a value
\* above zero after it, whatever the window, the length of the source and
\* the corrections made so far.
C32_DurationArgumentPositive ==
    (execs >= 1 /\ HasT(last_cmd)) => (TArg(last_cmd) > 0)

(***************************************************************************)
(* The validators and the end_past_video_end flag (under SpecValidate)     *)
(***************************************************************************)
\* what the validator of the call gives for the same file and the same
\* target with the flag set to b
OutcomeWithFlag(c, b) ==
    IF c.name = "validate_audio"
    THEN validate_audio(c.probe, c.info, b)
    ELSE validate_video(c.probe, c.info, b)

\* C33: the outcome of a validation is the outcome of the validation that
\* differs from it only in the end_past_video_end flag; in particular a
\* measured file shorter than its target by more than TOL is reported as a
\* duration mismatch whatever the flag.
C33_FlagDoesNotChangeOutcome ==
    Returned =>
        /\ v_result = OutcomeWithFlag(v_call, ~v_call.end_past_video_end)
        /\ OutcomeWithFlag(v_call, TRUE) = OutcomeWithFlag(v_call, FALSE)
        /\ (WasMeasured(v_call)
              /\ Measured(v_call) < v_call.info.duration - TOL)
             => (v_result.exc = "FfmpegIncorrectDurationError")

\* C33 witness: an audio file 1.1 s shorter than its target, validated with
\* the flag set, was reported as a duration mismatch
C33_Witness ==
    /\ v_call.name = "validate_audio"
    /\ v_call.end_past_video_end
    /\ WasMeasured(v_call)
    /\ Measured(v_call) = v_call.info.duration - 1100
    /\ v_result.exc = "FfmpegIncorrectDurationError"

====
